---- MODULE Spec2Model ----
(***************************************************************************)
(* Verification model of obs_repos.py: the entity model (Relation,         *)
(* Package), the package name filter, the membership filters, the metadata *)
(* cache reader, the cache refresh, a query session next to a refresh and  *)
(* the relation graph walker (provides_packages).                          *)
(*                                                                         *)
(* Python strings that the code takes apart (startswith, endswith, in,     *)
(* slicing) are sequences of one-character strings.  Python None for an    *)
(* optional list is the record None; Some(s) wraps a list that is present. *)
(***************************************************************************)
EXTENDS Integers, Sequences, FiniteSets

VARIABLES
    \* relation graph walker (main, lines 952-1003)
    packages,            \* tuple of candidate packages
    root_package,        \* the root package
    rtree,               \* reverse mode flag
    provided_packages,   \* the visited set
    stack,               \* frames of provides_packages being in its for loop
    arg,                 \* argument of the provides_packages call being entered
    pc,                  \* "load", "call", "loop", "done", or "off"
    expanded,            \* history: packages added to provided_packages, in order
    examined,            \* history: <<parent, candidate, how>> of every examined candidate
    \* matching primitive (Package.iter_relations, lines 83-106)
    rel_p,               \* the requiring package
    rel_q,               \* the candidate package
    rel_fwd,             \* Some(pairs) once rel_p.iter_relations(rel_q, False) was run
    rel_rev,             \* Some(pairs) once rel_q.iter_relations(rel_p, True) was run
    \* package name filter (PackageNameFilter, lines 183-250)
    flt_arg,             \* the --package argument
    flt_name,            \* the package name tested
    flt_filters,         \* self.filters
    flt_all_inverse,     \* self.is_all_inverse
    flt_result,          \* result of is_match(flt_name)
    flt_pc,              \* "new", "built", "matched", or "off"
    \* package equality (Package.__eq__, lines 75-78)
    eq_a, eq_b,          \* the packages compared
    eq_result,           \* eq_a == eq_b
    eq_pc,               \* "new", "compared", or "off"
    \* metadata cache reader (load_meta_cache, lines 564-595) in a query session
    cache_file,          \* what is at .packages.bin
    verbose,             \* args.verbose
    cache_pc,            \* "start", "loaded", "query", "exit", "raised", or "off"
    cache_returned,      \* Some(<<revisions, packages>>) once load_meta_cache returned
    help_shown,          \* show_help() was called
    exit_code,           \* argument of exit(), 0 while running
    query_steps,         \* packages that iter_packages has handed to the filters
    \* membership filters (Package.is_provides, Package.is_requires, lines 108-129)
    mem_self,            \* the package tested
    mem_filter,          \* the patterns of --provides or --requires
    mem_provides,        \* Some(<<result>>) once is_provides(mem_filter) was run
    mem_requires,        \* Some(<<result>>) once is_requires(mem_filter) was run
    \* Package.__init__ (lines 54-70), summary and description
    desc_summary,        \* the summary argument, None or Some(text)
    desc_description,    \* the description argument, None or Some(text)
    desc_stored,         \* self.description
    desc_pc,             \* "new", "built", or "off"
    \* cache refresh (main, update meta cache, lines 786-813)
    repos,               \* the partition directories under repos_path
    ing_verbose,         \* args.verbose
    repos_versions,      \* dict: the partition names that have a revision
    packages_cache,      \* list of the packages read
    packages_index,      \* dict `packages`: key -> position in packages_cache
    ing_i,               \* partition the current pass is at
    ing_pc,              \* "versions", "packages", "files", "write", "done", "raised", "off"
    ing_error,           \* the exception raised, "" if none
    ing_written,         \* what was dumped to .packages.bin, None if nothing
    \* a query session (filter subcommand, lines 881-1008) next to a refresh of
    \* another invocation that saves the cache (lines 810-812)
    disk,                \* .packages.bin as a reader finds it
    w_packages,          \* the packages the refresh dumps
    w_pc,                \* refresh: "idle", "open", "flushed", "closed", or "off"
    out,                 \* args.out
    package_arg,         \* args.package, None or Some(pattern)
    ses_reads,           \* history: what each load_meta_cache call found on disk
    ses_root,            \* root_package, None until selected
    ses_packages,        \* the candidate tuple `packages`, None until built
    ses_printed,         \* the packages the output loop was given
    ses_pc,              \* "start", "rooted", "walk", "done", "raised", or "off"
    ses_error            \* the exception raised, "" if none

walkVars == <<packages, root_package, rtree, provided_packages, stack, arg, pc,
              expanded, examined>>
relVars == <<rel_p, rel_q, rel_fwd, rel_rev>>
filterVars == <<flt_arg, flt_name, flt_filters, flt_all_inverse, flt_result, flt_pc>>
eqVars == <<eq_a, eq_b, eq_result, eq_pc>>
cacheVars == <<cache_file, verbose, cache_pc, cache_returned, help_shown, exit_code,
               query_steps>>
memVars == <<mem_self, mem_filter, mem_provides, mem_requires>>
descVars == <<desc_summary, desc_description, desc_stored, desc_pc>>
coreVars == <<walkVars, relVars, filterVars, eqVars, cacheVars>>
ingVars == <<repos, ing_verbose, repos_versions, packages_cache, packages_index,
             ing_i, ing_pc, ing_error, ing_written>>
sesVars == <<disk, w_packages, w_pc, out, package_arg, ses_reads, ses_root,
             ses_packages, ses_printed, ses_pc, ses_error>>
moreVars == <<memVars, descVars, ingVars, sesVars>>
vars == <<coreVars, moreVars>>
notWalk == <<relVars, filterVars, eqVars, cacheVars, moreVars>>
notRel == <<walkVars, filterVars, eqVars, cacheVars, moreVars>>
notFilter == <<walkVars, relVars, eqVars, cacheVars, moreVars>>
notEq == <<walkVars, relVars, filterVars, cacheVars, moreVars>>
notCache == <<walkVars, relVars, filterVars, eqVars, moreVars>>
notMem == <<coreVars, descVars, ingVars, sesVars>>
notDesc == <<coreVars, memVars, ingVars, sesVars>>
notIng == <<coreVars, memVars, descVars, sesVars>>
notSes == <<coreVars, memVars, descVars, ingVars>>

\* ------------------------------------------------------------------ bounds
MaxPackages == 3
MaxRelations == 2
MaxPatLen == 3
MaxNameLen == 5
MaxPatterns == 3
MaxListNameLen == 2
MaxItems == 3
MaxTextLen == 3
MaxMemPatterns == 2
MaxPartitions == 2
MaxRecords == 2
MaxCached == 2

\* --------------------------------------------------------- Python values
None == [is_none |-> TRUE, v |-> <<>>]
Some(s) == [is_none |-> FALSE, v |-> s]
\* `x or []`
OrEmpty(x) == IF x.is_none THEN <<>> ELSE x.v
\* `not x` for an optional list
Falsy(x) == x.is_none \/ x.v = <<>>

\* str.startswith
StartsWith(s, prefix) ==
    /\ Len(prefix) <= Len(s)
    /\ SubSeq(s, 1, Len(prefix)) = prefix

\* str.endswith
EndsWith(s, suffix) ==
    /\ Len(suffix) <= Len(s)
    /\ SubSeq(s, Len(s) - Len(suffix) + 1, Len(s)) = suffix

\* `sub in s` for strings
Contains(s, sub) ==
    \E i \in 1..(Len(s) - Len(sub) + 1) : SubSeq(s, i, i + Len(sub) - 1) = sub

\* str.split(sep) for a one-character separator
RECURSIVE Split(_, _)
Split(s, sep) ==
    IF \A i \in 1..Len(s) : s[i] # sep THEN <<s>>
    ELSE LET k == CHOOSE i \in 1..Len(s) :
                      s[i] = sep /\ \A j \in 1..(i-1) : s[j] # sep
         IN  <<SubSeq(s, 1, k - 1)>> \o Split(SubSeq(s, k + 1, Len(s)), sep)

\* sep.join(parts)
RECURSIVE Join(_, _)
Join(parts, sep) ==
    IF parts = <<>> THEN <<>>
    ELSE IF Len(parts) = 1 THEN parts[1]
    ELSE parts[1] \o <<sep>> \o Join(Tail(parts), sep)

Range(s) == {s[i] : i \in 1..Len(s)}

\* ------------------------------------------------------------- Relation
Relation(name, flags, ver, rel) ==
    [name |-> name, flags |-> flags, ver |-> ver, rel |-> rel]

\* Relation.provides(other) for another Relation
RelationProvides(self, other) == self.name = other.name

\* -------------------------------------------------------------- Package
Package(name, arch, version, rel, files, provides, requires, repo) ==
    [name |-> name, arch |-> arch, version |-> version, rel |-> rel,
     files |-> files, provides |-> provides, requires |-> requires, repo |-> repo]

\* Package.__eq__
PackageEq(self, other) ==
    self.name = other.name /\ self.arch = other.arch /\ self.version = other.version

\* faulty variant: the hashed tuple leaves the repository out
PackageHashWithoutRepo(self) == <<"", self.name, self.arch, self.version>>

\* Package.__hash__: the hashed tuple
PackageHash(self) == <<self.repo, self.name, self.arch, self.version>>

\* `package in a_set`: a member with the same hash that compares equal
InSet(package, set) ==
    \E e \in set : PackageHash(e) = PackageHash(package) /\ PackageEq(e, package)

\* the pairs yielded for one requirement, in order; a pair is
\* <<require, <<provide>>>> or, for a file, <<require, <<>>>> (provide None)
FilePairs(require, files) ==
    LET F[i \in 0..Len(files)] ==
            IF i = 0 THEN <<>>
            ELSE IF files[i] = require.name
                 THEN Append(F[i-1], <<require, <<>>>>) ELSE F[i-1]
    IN F[Len(files)]

ProvidePairsForward(require, provides) ==
    LET F[i \in 0..Len(provides)] ==
            IF i = 0 THEN <<>>
            ELSE IF RelationProvides(require, provides[i])
                 THEN Append(F[i-1], <<require, <<provides[i]>>>>) ELSE F[i-1]
    IN F[Len(provides)]

ProvidePairsReverse(require, provides) ==
    LET F[i \in 0..Len(provides)] ==
            IF i = 0 THEN <<>>
            ELSE IF RelationProvides(provides[i], require)
                 THEN Append(F[i-1], <<require, <<provides[i]>>>>) ELSE F[i-1]
    IN F[Len(provides)]

\* faulty variant: the reverse branch walks its own requires against the other package
IterRelationsReverseNotSwapped(self, provides) ==
    LET reqs == OrEmpty(self.requires)
        F[i \in 0..Len(reqs)] ==
            IF i = 0 THEN <<>>
            ELSE F[i-1] \o
                 (IF StartsWith(reqs[i].name, <<"/">>)
                  THEN FilePairs(reqs[i], OrEmpty(provides.files))
                  ELSE ProvidePairsReverse(reqs[i], OrEmpty(provides.provides)))
    IN F[Len(reqs)]

\* Package.iter_relations, reverse branch (lines 85-94)
IterRelationsReverse(self, provides) ==
    LET reqs == OrEmpty(provides.requires)
        F[i \in 0..Len(reqs)] ==
            IF i = 0 THEN <<>>
            ELSE F[i-1] \o
                 (IF StartsWith(reqs[i].name, <<"/">>)
                  THEN FilePairs(reqs[i], OrEmpty(self.files))
                  ELSE ProvidePairsReverse(reqs[i], OrEmpty(self.provides)))
    IN F[Len(reqs)]

\* faulty variant: the forward branch matches a path requirement against provided
\* relations like any other requirement
IterRelationsForwardNoFiles(self, provides) ==
    LET reqs == OrEmpty(self.requires)
        F[i \in 0..Len(reqs)] ==
            IF i = 0 THEN <<>>
            ELSE F[i-1] \o ProvidePairsForward(reqs[i], OrEmpty(provides.provides))
    IN F[Len(reqs)]

\* Package.iter_relations, forward branch (lines 95-106)
IterRelationsForward(self, provides) ==
    LET reqs == OrEmpty(self.requires)
        F[i \in 0..Len(reqs)] ==
            IF i = 0 THEN <<>>
            ELSE F[i-1] \o
                 (IF StartsWith(reqs[i].name, <<"/">>)
                  THEN FilePairs(reqs[i], OrEmpty(provides.files))
                  ELSE ProvidePairsForward(reqs[i], OrEmpty(provides.provides)))
    IN F[Len(reqs)]

\* Package.iter_relations(provides, reverse): the sequence of yielded pairs
iter_relations(self, provides, reverse) ==
    IF reverse THEN IterRelationsReverse(self, provides)
    ELSE IterRelationsForward(self, provides)

\* ------------------------------------------------- relation graph walker
\* the candidate sets and roots the walker is started on
PkgNames == <<"A", "B", "C", "D">>
RelNames == {<<"a">>, <<"b">>, <<"/", "f">>}
ProvNames == {<<"a">>, <<"b">>}
FileNames == {<<"/", "f">>}

\* the (name, release) of the package in slot i: a package of its own name,
\* or a second release of the package name of an earlier slot
SlotIds(i) ==
    {<<PkgNames[i], "1">>} \cup {<<PkgNames[j], "2">> : j \in 1..(i-1)}

SlotPackages(i) ==
    {Package(id[1], "x86_64", "1.0", id[2], files,
             Some(provides), Some(requires), "main") :
        id \in SlotIds(i),
        files \in {None} \cup {Some(<<f>>) : f \in FileNames},
        provides \in {<<>>} \cup {<<Relation(n, "None", "None", "None")>> : n \in ProvNames},
        requires \in {<<>>} \cup {<<Relation(n, "None", "None", "None")>> : n \in RelNames}}

NevraRepo(p) == <<p.repo, p.name, p.arch, p.version, p.rel>>

WalkInit ==
    /\ packages = <<>>
    /\ rtree = FALSE
    /\ root_package = None
    /\ provided_packages = {}
    /\ stack = <<>>
    /\ arg = None
    /\ pc = "load"
    /\ expanded = <<>>
    /\ examined = <<>>

\* the walker is not part of the run
WalkOff ==
    /\ packages = <<>>
    /\ rtree = FALSE
    /\ root_package = None
    /\ provided_packages = {}
    /\ stack = <<>>
    /\ arg = None
    /\ pc = "off"
    /\ expanded = <<>>
    /\ examined = <<>>

\* line 1001: packages = tuple(_iter_packages()), one cached package at a time;
\* no two entries of the cache are the same build of the same repository
LoadPackage ==
    /\ pc = "load"
    /\ Len(packages) < MaxPackages
    /\ \E p \in SlotPackages(Len(packages) + 1) :
        /\ \A i \in 1..Len(packages) : NevraRepo(packages[i]) # NevraRepo(p)
        /\ packages' = Append(packages, p)
    /\ UNCHANGED notWalk
    /\ UNCHANGED <<root_package, rtree, provided_packages, stack, arg, pc,
                   expanded, examined>>

\* lines 954-960, 996-1003: the root is the first package that passes the
\* name filter (any package with no earlier package of its name can be it);
\* args.out sets the direction
SelectRoot ==
    /\ pc = "load"
    /\ \E i \in 1..Len(packages) :
        /\ \A j \in 1..(i-1) : packages[j].name # packages[i].name
        /\ root_package' = packages[i]
        /\ arg' = packages[i]
    /\ rtree' \in BOOLEAN
    /\ pc' = "call"
    /\ UNCHANGED notWalk
    /\ UNCHANGED <<packages, provided_packages, stack, expanded, examined>>

\* where control goes when a provides_packages call returns
AfterReturn(stk) == IF stk = <<>> THEN "done" ELSE "loop"

\* lines 975-980: the leaf test
IsLeaf(package) == Falsy(package.requires)

\* faulty variant: the package is not added to the visited set
CallWithoutAdd ==
    /\ pc = "call"
    /\ IF InSet(arg, provided_packages)
       THEN /\ pc' = AfterReturn(stack)
            /\ UNCHANGED <<stack, expanded>>
       ELSE /\ expanded' = Append(expanded, arg)
            /\ IF IsLeaf(arg)
               THEN /\ pc' = AfterReturn(stack)
                    /\ UNCHANGED stack
               ELSE /\ stack' = Append(stack, [package |-> arg, i |-> 1])
                    /\ pc' = "loop"
    /\ UNCHANGED notWalk
    /\ UNCHANGED <<packages, root_package, rtree, arg, examined, provided_packages>>

\* lines 968-984: entry of provides_packages(arg) up to its for loop
Call ==
    /\ pc = "call"
    /\ IF InSet(arg, provided_packages)
       THEN /\ pc' = AfterReturn(stack)
            /\ UNCHANGED <<provided_packages, stack, expanded>>
       ELSE /\ provided_packages' = provided_packages \cup {arg}
            /\ expanded' = Append(expanded, arg)
            /\ IF IsLeaf(arg)
               THEN /\ pc' = AfterReturn(stack)
                    /\ UNCHANGED stack
               ELSE /\ stack' = Append(stack, [package |-> arg, i |-> 1])
                    /\ pc' = "loop"
    /\ UNCHANGED notWalk
    /\ UNCHANGED <<packages, root_package, rtree, arg, examined>>

\* lines 962-966: the test of _iter_required_packages on one candidate
IsRequiredPackage(package, package_) ==
    iter_relations(package, package_, rtree) # <<>>

Top == stack[Len(stack)]
Advance == [stack EXCEPT ![Len(stack)].i = @ + 1]

\* faulty variant: the for loop recurses into every required candidate
ExamineWithoutVisitedTest ==
    /\ pc = "loop"
    /\ Top.i <= Len(packages)
    /\ LET package == Top.package
           package_ == packages[Top.i]
       IN  IF ~IsRequiredPackage(package, package_)
           THEN /\ pc' = "loop"
                /\ UNCHANGED <<arg, examined>>
           ELSE /\ pc' = "call"
                /\ arg' = package_
                /\ examined' = Append(examined, <<package, package_, "call">>)
    /\ stack' = Advance
    /\ UNCHANGED notWalk
    /\ UNCHANGED <<packages, root_package, rtree, provided_packages, expanded>>

\* lines 984-993: one candidate of the for loop
Examine ==
    /\ pc = "loop"
    /\ Top.i <= Len(packages)
    /\ LET package == Top.package
           package_ == packages[Top.i]
       IN  IF ~IsRequiredPackage(package, package_)
           THEN /\ pc' = "loop"
                /\ UNCHANGED <<arg, examined>>
           ELSE IF InSet(package_, provided_packages)
           THEN /\ pc' = "loop"
                /\ examined' = Append(examined, <<package, package_, "already">>)
                /\ UNCHANGED arg
           ELSE /\ pc' = "call"
                /\ arg' = package_
                /\ examined' = Append(examined, <<package, package_, "call">>)
    /\ stack' = Advance
    /\ UNCHANGED notWalk
    /\ UNCHANGED <<packages, root_package, rtree, provided_packages, expanded>>

\* line 994: the for loop is exhausted, provides_packages returns
Return ==
    /\ pc = "loop"
    /\ Top.i > Len(packages)
    /\ stack' = SubSeq(stack, 1, Len(stack) - 1)
    /\ pc' = AfterReturn(stack')
    /\ UNCHANGED notWalk
    /\ UNCHANGED <<packages, root_package, rtree, provided_packages, arg,
                   expanded, examined>>

RelOff ==
    /\ rel_p = None /\ rel_q = None /\ rel_fwd = None /\ rel_rev = None

FilterOff ==
    /\ flt_arg = <<>> /\ flt_name = <<>> /\ flt_filters = <<>>
    /\ flt_all_inverse = FALSE /\ flt_result = FALSE /\ flt_pc = "off"

EqOff ==
    /\ eq_a = None /\ eq_b = None /\ eq_result = FALSE /\ eq_pc = "off"

CacheOff ==
    /\ cache_file = None /\ verbose = 0 /\ cache_pc = "off" /\ cache_returned = None
    /\ help_shown = FALSE /\ exit_code = 0 /\ query_steps = 0

MemOff ==
    /\ mem_self = None /\ mem_filter = <<>> /\ mem_provides = None
    /\ mem_requires = None

DescOff ==
    /\ desc_summary = None /\ desc_description = None /\ desc_stored = None
    /\ desc_pc = "off"

CoreOff == WalkOff /\ RelOff /\ FilterOff /\ EqOff /\ CacheOff

IngOff ==
    /\ repos = <<>> /\ ing_verbose = 0 /\ repos_versions = <<>>
    /\ packages_cache = <<>> /\ packages_index = <<>> /\ ing_i = 0
    /\ ing_pc = "off" /\ ing_error = "" /\ ing_written = None

SesOff ==
    /\ disk = None /\ w_packages = <<>> /\ w_pc = "off" /\ out = "" /\ package_arg = None
    /\ ses_reads = <<>> /\ ses_root = None /\ ses_packages = None
    /\ ses_printed = <<>> /\ ses_pc = "off" /\ ses_error = ""

MoreOff == MemOff /\ DescOff /\ IngOff /\ SesOff

Init == WalkInit /\ RelOff /\ FilterOff /\ EqOff /\ CacheOff /\ MoreOff

Next == LoadPackage \/ SelectRoot \/ Call \/ Examine \/ Return

\* the filter subcommand with a tree or rtree output
Spec == Init /\ [][Next]_vars

\* ------------------------------------------------------ matching primitive
\* the packages Package.iter_relations is run on: requires, provides and
\* files each absent, empty or not; relations that differ in flags only;
\* a provided relation named as a path and a file named as a relation
Relations ==
    {Relation(n, "None", "None", "None") : n \in {<<"a">>, <<"/", "f">>}}
    \cup {Relation(n, "EQ", "1.0", "None") : n \in {<<"a">>, <<"/", "f">>}}

RECURSIVE SeqsUpTo(_, _)
SeqsUpTo(S, n) ==
    IF n = 0 THEN {<<>>}
    ELSE LET shorter == SeqsUpTo(S, n - 1)
         IN  shorter \cup {Append(s, x) : s \in shorter, x \in S}

OptionalSeqs(S, n) == {None} \cup {Some(s) : s \in SeqsUpTo(S, n)}

RelInit ==
    /\ \E requires \in OptionalSeqs(Relations, MaxRelations) :
        rel_p = Package("A", "x86_64", "1.0", "1", None, None, requires, "main")
    /\ \E provides \in OptionalSeqs(Relations, MaxRelations),
          files \in OptionalSeqs({<<"a">>, <<"/", "f">>}, MaxRelations) :
        rel_q = Package("B", "x86_64", "1.0", "1", files, provides, None, "main")
    /\ rel_fwd = None
    /\ rel_rev = None
    /\ WalkOff /\ FilterOff /\ EqOff /\ CacheOff /\ MoreOff

\* rel_p.iter_relations(rel_q, reverse=False)
IterForward ==
    /\ rel_fwd = None
    /\ rel_fwd' = Some(iter_relations(rel_p, rel_q, FALSE))
    /\ UNCHANGED <<rel_p, rel_q, rel_rev, notRel>>

\* rel_q.iter_relations(rel_p, reverse=True)
IterReverse ==
    /\ rel_rev = None
    /\ rel_rev' = Some(iter_relations(rel_q, rel_p, TRUE))
    /\ UNCHANGED <<rel_p, rel_q, rel_fwd, notRel>>

RelNext == IterForward \/ IterReverse

SpecRel == RelInit /\ [][RelNext]_vars

\* ------------------------------------------------------ package name filter
\* FilterBase.__init__ (lines 188-190); name_start, name_mid and name_end
\* are set by FilterParts only
FilterBase(kind, pattern) ==
    LET is_inverse == StartsWith(pattern, <<"!">>)
    IN  [kind |-> kind,
         is_inverse |-> is_inverse,
         pattern |-> IF is_inverse THEN Tail(pattern) ELSE pattern,
         name_start |-> <<>>, name_mid |-> <<>>, name_end |-> <<>>]

\* FilterParts.__init__ (lines 201-205)
FilterParts(pattern) ==
    [FilterBase("parts", pattern) EXCEPT
        !.name_start = pattern \o <<"-">>,
        !.name_mid = <<"-">> \o pattern \o <<"-">>,
        !.name_end = <<"-">> \o pattern]

\* faulty variant: FilterParts.is_match without the middle component test
FilterPartsIsMatchNoMid(self, name) ==
    \/ StartsWith(name, self.name_start)
    \/ EndsWith(name, self.name_end)
    \/ name = self.pattern

\* FilterParts.is_match (lines 206-208)
FilterPartsIsMatch(self, name) ==
    \/ StartsWith(name, self.name_start)
    \/ EndsWith(name, self.name_end)
    \/ Contains(name, self.name_mid)
    \/ name = self.pattern

\* is_match of the filter classes (lines 195-223)
FilterIsMatch(self, name) ==
    CASE self.kind = "exactly" -> name = self.pattern
      [] self.kind = "parts" -> FilterPartsIsMatch(self, name)
      [] self.kind = "text" -> Contains(name, self.pattern)
      [] self.kind = "startswith" -> StartsWith(name, self.pattern)
      [] self.kind = "endswith" -> EndsWith(name, self.pattern)

\* lines 229-239: the filter of one space separated pattern
ParsePattern(name_pattern_) ==
    CASE name_pattern_[1] = "=" -> FilterBase("exactly", Tail(name_pattern_))
      [] name_pattern_[1] = "~" -> FilterParts(Tail(name_pattern_))
      [] name_pattern_[1] = "^" -> FilterBase("startswith", Tail(name_pattern_))
      [] name_pattern_[1] = "#" -> FilterBase("endswith", Tail(name_pattern_))
      [] OTHER -> FilterBase("text", name_pattern_)

\* lines 227-239: self.filters
ParseFilters(pattern) ==
    LET parts == Split(pattern, " ")
    IN  [i \in 1..Len(parts) |-> ParsePattern(parts[i])]

\* faulty variant: is_all_inverse is set when any filter is negated
IsAllInverseAny(filters) == \E i \in 1..Len(filters) : filters[i].is_inverse

\* line 240: self.is_all_inverse
IsAllInverse(filters) == \A i \in 1..Len(filters) : filters[i].is_inverse

\* PackageNameFilter.is_match (lines 242-250), the loop from filter i on
RECURSIVE IsMatchFrom(_, _, _, _)
IsMatchFrom(filters, is_all_inverse, name, i) ==
    IF i > Len(filters) THEN is_all_inverse
    ELSE LET is_match == FilterIsMatch(filters[i], name)
         IN  IF filters[i].is_inverse
             THEN IF is_match THEN FALSE
                  ELSE IsMatchFrom(filters, is_all_inverse, name, i + 1)
             ELSE IF is_match THEN TRUE
                  ELSE IsMatchFrom(filters, is_all_inverse, name, i + 1)

\* the --package arguments and names the filter is run on
FilterChars == {"p", "x", "-"}
PatternChars == {"p", "-"}
Sigils == {"=", "~", "^", "#"}
Prefixes ==
    {sigil \o negation : sigil \in {<<>>} \cup {<<c>> : c \in Sigils},
                         negation \in {<<>>, <<"!">>}}

\* one pattern with a body of up to MaxPatLen characters
SinglePatterns ==
    {prefix \o body : prefix \in Prefixes,
                      body \in UNION {[1..n -> PatternChars] : n \in 0..MaxPatLen}}
    \ {<<>>}

\* the patterns of a list: every kind, negated or not, of the body "p"
ListPatterns == {prefix \o <<"p">> : prefix \in Prefixes}

FilterInit ==
    /\ \/ /\ flt_arg \in SinglePatterns
          /\ \E n \in 0..MaxNameLen : flt_name \in [1..n -> FilterChars]
       \/ /\ \E n \in 2..MaxPatterns : \E parts \in [1..n -> ListPatterns] :
                flt_arg = Join(parts, " ")
          /\ \E n \in 0..MaxListNameLen : flt_name \in [1..n -> FilterChars]
    /\ flt_filters = <<>>
    /\ flt_all_inverse = FALSE
    /\ flt_result = FALSE
    /\ flt_pc = "new"
    /\ WalkOff /\ RelOff /\ EqOff /\ CacheOff /\ MoreOff

\* PackageNameFilter.__init__ (lines 226-240)
NewFilter ==
    /\ flt_pc = "new"
    /\ flt_filters' = ParseFilters(flt_arg)
    /\ flt_all_inverse' = IsAllInverse(flt_filters')
    /\ flt_pc' = "built"
    /\ UNCHANGED <<flt_arg, flt_name, flt_result, notFilter>>

\* PackageNameFilter.is_match(flt_name) (lines 242-250)
IsMatch ==
    /\ flt_pc = "built"
    /\ flt_result' = IsMatchFrom(flt_filters, flt_all_inverse, flt_name, 1)
    /\ flt_pc' = "matched"
    /\ UNCHANGED <<flt_arg, flt_name, flt_filters, flt_all_inverse, notFilter>>

FilterNext == NewFilter \/ IsMatch

SpecFilter == FilterInit /\ [][FilterNext]_vars

\* ---------------------------------------------------------- package equality
EqPackages ==
    {Package(name, arch, version, rel, None, None, None, repo) :
        name \in {"A", "B"}, arch \in {"x86_64", "noarch"},
        version \in {"1.0", "2.0"}, rel \in {"1", "2"}, repo \in {"main", "oss"}}

EqInit ==
    /\ eq_a \in EqPackages
    /\ eq_b \in EqPackages
    /\ eq_result = FALSE
    /\ eq_pc = "new"
    /\ WalkOff /\ RelOff /\ FilterOff /\ CacheOff /\ MoreOff

\* eq_a == eq_b
Compare ==
    /\ eq_pc = "new"
    /\ eq_result' = PackageEq(eq_a, eq_b)
    /\ eq_pc' = "compared"
    /\ UNCHANGED <<eq_a, eq_b, notEq>>

EqNext == Compare

SpecEq == EqInit /\ [][EqNext]_vars

\* ------------------------------------------------------ metadata cache reader
\* a decoded Python object: its type and, for a container, its elements
\* (for a dict its keys)
Obj(kind, items) == [kind |-> kind, items |-> items]

\* line 24
PACKAGE_CACHE_HEADER == Obj("tuple", <<"PACKAGE_CACHE", "2025.5">>)

\* what the elements of a decoded artifact are drawn from
CacheItems ==
    {PACKAGE_CACHE_HEADER,
     Obj("tuple", <<"PACKAGE_CACHE", "2024.1">>),
     Obj("tuple", <<"PACKAGES", "2025.5">>),
     Obj("list", <<"PACKAGE_CACHE", "2025.5">>),
     Obj("dict", <<"main">>),
     Obj("dict", <<>>),
     Obj("tuple", <<"pkg">>),
     Obj("tuple", <<>>),
     Obj("list", <<"pkg">>),
     Obj("str", <<>>)}

\* what open() and pickle.load() make of .packages.bin: no file, a file that
\* does not decode, or a decoded object
NotFound == [state |-> "not found", obj |-> Obj("none", <<>>)]
Undecodable == [state |-> "undecodable", obj |-> Obj("none", <<>>)]
Decoded(obj) == [state |-> "decoded", obj |-> obj]

CacheFiles ==
    {NotFound, Undecodable, Decoded(Obj("dict", <<>>))}
    \cup {Decoded(Obj(kind, items)) :
            kind \in {"tuple", "list"},
            items \in UNION {[1..n -> CacheItems] : n \in 0..MaxItems}}

\* faulty variant: the header check compares the magic only
IsWrongFormatMagicOnly(artifact) ==
    IF artifact.kind # "tuple" THEN TRUE
    ELSE IF Len(artifact.items) # 3 THEN TRUE
    ELSE IF artifact.items[1].kind # "tuple"
            \/ artifact.items[1].items = <<>>
            \/ artifact.items[1].items[1] # PACKAGE_CACHE_HEADER.items[1] THEN TRUE
    ELSE IF artifact.items[2].kind # "dict" THEN TRUE
    ELSE artifact.items[3].kind # "tuple"

\* lines 582-585: the condition of the format check
IsWrongFormat(artifact) ==
    IF artifact.kind # "tuple" THEN TRUE
    ELSE IF Len(artifact.items) # 3 THEN TRUE
    ELSE IF artifact.items[1] # PACKAGE_CACHE_HEADER THEN TRUE
    ELSE IF artifact.items[2].kind # "dict" THEN TRUE
    ELSE artifact.items[3].kind # "tuple"

CacheInit ==
    /\ cache_file \in CacheFiles
    /\ verbose \in 0..2
    /\ cache_pc = "start"
    /\ cache_returned = None
    /\ help_shown = FALSE
    /\ exit_code = 0
    /\ query_steps = 0
    /\ WalkOff /\ RelOff /\ FilterOff /\ EqOff /\ MoreOff

\* load_meta_cache (lines 564-595), called by iter_packages (line 603)
LoadMetaCache ==
    /\ cache_pc = "start"
    /\ IF cache_file.state = "not found"
       THEN \* lines 577-579
            /\ help_shown' = TRUE
            /\ exit_code' = -1
            /\ cache_pc' = "exit"
            /\ UNCHANGED cache_returned
       ELSE IF cache_file.state = "undecodable"
       THEN \* line 576: pickle.load raises, nothing catches it
            /\ cache_pc' = "raised"
            /\ UNCHANGED <<help_shown, exit_code, cache_returned>>
       ELSE IF IsWrongFormat(cache_file.obj)
       THEN \* lines 586-587
            /\ help_shown' = TRUE
            /\ exit_code' = -1
            /\ cache_pc' = "exit"
            /\ UNCHANGED cache_returned
       ELSE IF verbose > 1 /\ cache_file.obj.items[2].items = <<>>
       THEN \* lines 591, 560: max() of an empty sequence raises
            /\ cache_pc' = "raised"
            /\ UNCHANGED <<help_shown, exit_code, cache_returned>>
       ELSE \* line 595
            /\ cache_returned' =
                   Some(<<cache_file.obj.items[2], cache_file.obj.items[3]>>)
            /\ cache_pc' = "loaded"
            /\ UNCHANGED <<help_shown, exit_code>>
    /\ UNCHANGED <<cache_file, verbose, query_steps, notCache>>

\* lines 604-617: iter_packages hands the next cached package to the filters
QueryStep ==
    /\ cache_pc = "loaded"
    /\ query_steps < Len(cache_returned.v[2].items)
    /\ query_steps' = query_steps + 1
    /\ UNCHANGED <<cache_file, verbose, cache_pc, cache_returned, help_shown,
                   exit_code, notCache>>

\* the cached packages are exhausted, the session ends
QueryDone ==
    /\ cache_pc = "loaded"
    /\ query_steps = Len(cache_returned.v[2].items)
    /\ cache_pc' = "done"
    /\ UNCHANGED <<cache_file, verbose, cache_returned, help_shown, exit_code,
                   query_steps, notCache>>

CacheNext == LoadMetaCache \/ QueryStep \/ QueryDone

SpecCache == CacheInit /\ [][CacheNext]_vars

\* ------------------------------------------------------ membership filters
\* Package.is_provides (lines 108-121): a pattern that starts with '/' is
\* compared with the files, any other pattern is looked for in the names of
\* the provided relations
IsProvides(self, provides) ==
    \E k \in 1..Len(provides) :
        IF StartsWith(provides[k], <<"/">>)
        THEN \E i \in 1..Len(OrEmpty(self.files)) : self.files.v[i] = provides[k]
        ELSE \E i \in 1..Len(OrEmpty(self.provides)) :
                 Contains(self.provides.v[i].name, provides[k])

\* Package.is_requires (lines 123-129)
IsRequires(self, requires) ==
    \E k \in 1..Len(requires) :
        \E i \in 1..Len(OrEmpty(self.requires)) :
            Contains(self.requires.v[i].name, requires[k])

\* relation names: plain, a path, one that contains another
MemRelations ==
    {Relation(n, "None", "None", "None") :
        n \in {<<"a">>, <<"/", "f">>, <<"x", "a">>}}

\* the patterns of --provides / --requires (lines 883-884)
MemPatterns == {<<"a">>, <<"f">>, <<"/">>, <<"/", "f">>}

MemInit ==
    /\ \E provides \in OptionalSeqs(MemRelations, MaxRelations),
          requires \in OptionalSeqs(MemRelations, MaxRelations),
          files \in OptionalSeqs({<<"/", "f">>}, 1) :
        mem_self = Some(<<Package("A", "x86_64", "1.0", "1", files, provides,
                                  requires, "main")>>)
    /\ mem_filter \in SeqsUpTo(MemPatterns, MaxMemPatterns) \ {<<>>}
    /\ mem_provides = None
    /\ mem_requires = None
    /\ CoreOff /\ DescOff /\ IngOff /\ SesOff

\* line 899: package.is_provides(provides_filter)
CallIsProvides ==
    /\ mem_provides = None
    /\ mem_provides' = Some(<<IsProvides(mem_self.v[1], mem_filter)>>)
    /\ UNCHANGED <<mem_self, mem_filter, mem_requires, notMem>>

\* line 902: package.is_requires(requires_filter)
CallIsRequires ==
    /\ mem_requires = None
    /\ mem_requires' = Some(<<IsRequires(mem_self.v[1], mem_filter)>>)
    /\ UNCHANGED <<mem_self, mem_filter, mem_provides, notMem>>

MemNext == CallIsProvides \/ CallIsRequires

SpecMem == MemInit /\ [][MemNext]_vars

\* ------------------------------------------------ summary and description
\* str.rstrip('.'): every trailing period is removed
RECURSIVE RStrip(_, _)
RStrip(s, ch) ==
    IF s # <<>> /\ s[Len(s)] = ch THEN RStrip(SubSeq(s, 1, Len(s) - 1), ch) ELSE s

\* line 68: `description if summary != (description or '').rstrip('.') else None`;
\* summary None differs from every string
StoredDescription(summary, description) ==
    LET stripped == RStrip(OrEmpty(description), ".")
    IN  IF summary.is_none \/ summary.v # stripped THEN description ELSE None

TextChars == {"a", "."}

Texts == OptionalSeqs(TextChars, MaxTextLen)

DescInit ==
    /\ desc_summary \in Texts
    /\ desc_description \in Texts
    /\ desc_stored = None
    /\ desc_pc = "new"
    /\ CoreOff /\ MemOff /\ IngOff /\ SesOff

\* Package(..., summary=desc_summary, description=desc_description)
NewPackage ==
    /\ desc_pc = "new"
    /\ desc_stored' = StoredDescription(desc_summary, desc_description)
    /\ desc_pc' = "built"
    /\ UNCHANGED <<desc_summary, desc_description, notDesc>>

\* the constructed package is handed on
UsePackage ==
    /\ desc_pc = "built"
    /\ desc_pc' = "used"
    /\ UNCHANGED <<desc_summary, desc_description, desc_stored, notDesc>>

DescNext == NewPackage \/ UsePackage

SpecDesc == DescInit /\ [][DescNext]_vars

\* ------------------------------------------------------------ cache refresh
\* a <package> record of a package index (primary) or a file index (filelists)
IndexRecord(type, name, arch, version, rel) ==
    [type |-> type, name |-> name, arch |-> arch, version |-> version, rel |-> rel]

\* package index records: two releases of one version, another package, and a
\* record that is not an rpm
PrimaryRecords ==
    {IndexRecord("rpm", "a", "x86_64", "1.0", "1"),
     IndexRecord("rpm", "a", "x86_64", "1.0", "2"),
     IndexRecord("rpm", "b", "x86_64", "1.0", "1"),
     IndexRecord("deb", "b", "x86_64", "1.0", "1")}

\* file index records (iter_filelist reads no type)
FilelistRecords ==
    {IndexRecord("rpm", "a", "x86_64", "1.0", "1"),
     IndexRecord("rpm", "b", "x86_64", "1.0", "1")}

\* a descriptor file of a partition: parsed ("ok"), named by the manifest but
\* not on disk ("missing"), or not named by the manifest ("unnamed")
Descriptors(records) ==
    {[state |-> "ok", records |-> r] : r \in SeqsUpTo(records, MaxRecords)}
    \cup {[state |-> st, records |-> <<>>] : st \in {"missing", "unnamed"}}

\* a partition directory; repomd tells whether get_repomd returns a manifest
Partitions(name) ==
    {[name |-> name, repomd |-> FALSE,
      primary |-> [state |-> "missing", records |-> <<>>],
      filelists |-> [state |-> "missing", records |-> <<>>]]}
    \cup {[name |-> name, repomd |-> TRUE, primary |-> pr, filelists |-> fl] :
            pr \in Descriptors(PrimaryRecords), fl \in Descriptors(FilelistRecords)}

PartitionNames == <<"main", "oss", "non-oss">>

\* the files a file index record of a partition lists
RecordFiles(repo, record) == <<<<"/", repo, record.name, record.rel>>>>

IngInit ==
    /\ \E n \in 0..MaxPartitions :
        \E r \in [1..n -> UNION {Partitions(PartitionNames[k]) : k \in 1..n}] :
            /\ \A k \in 1..n : r[k].name = PartitionNames[k]
            /\ repos = r
    /\ ing_verbose \in 0..1
    /\ repos_versions = <<>>
    /\ packages_cache = <<>>
    /\ packages_index = <<>>
    /\ ing_i = 0
    /\ ing_pc = "versions"
    /\ ing_error = ""
    /\ ing_written = None
    /\ CoreOff /\ MemOff /\ DescOff /\ SesOff

\* where a pass over the partitions goes after partition i: on to the next
\* partition, or to the following stage, which starts at the first one
AfterPartition(i, stage, following) ==
    IF i < Len(repos) THEN [pc |-> stage, i |-> i + 1] ELSE [pc |-> following, i |-> 1]

\* lines 790-794: the revisions of the partitions that have a manifest
\* (iter_repositories_repomds, lines 391-395); print_repos_versions takes
\* max() over the names
ReadVersions ==
    /\ ing_pc = "versions"
    /\ LET valid == SelectSeq(repos, LAMBDA part : part.repomd)
           names == [k \in 1..Len(valid) |-> valid[k].name]
       IN  /\ repos_versions' = names
           /\ IF ing_verbose > 0 /\ names = <<>>
              THEN /\ ing_pc' = "raised"
                   /\ ing_error' = "ValueError"
                   /\ UNCHANGED ing_i
              ELSE /\ ing_pc' = AfterPartition(0, "packages", "write").pc
                   /\ ing_i' = AfterPartition(0, "packages", "write").i
                   /\ UNCHANGED ing_error
    /\ UNCHANGED <<repos, ing_verbose, packages_cache, packages_index, ing_written, notIng>>

\* dict assignment packages[package] = position: the key is found by
\* __hash__ and __eq__; equal hashed tuples compare equal
SetItem(index, package, position) ==
    [k \in DOMAIN index \cup {PackageHash(package)} |->
        IF k = PackageHash(package) THEN position ELSE index[k]]

\* iter_primary (lines 327-360) up to its first record that is not an rpm,
\* each package getting its repo (line 407) and being added (lines 798-799)
RECURSIVE AddPrimary(_, _, _, _)
AddPrimary(cache, index, repo, records) ==
    IF records = <<>> THEN [cache |-> cache, index |-> index, error |-> ""]
    ELSE IF Head(records).type # "rpm"
    THEN [cache |-> cache, index |-> index, error |-> "Exception"]
    ELSE LET r == Head(records)
             package == Package(r.name, r.arch, r.version, r.rel, None,
                                Some(<<>>), Some(<<>>), repo)
         IN  AddPrimary(Append(cache, package),
                        SetItem(index, package, Len(cache) + 1),
                        repo, Tail(records))

\* lines 797-800 for one partition (iter_repositories_packages, lines 399-408)
AddPackages ==
    /\ ing_pc = "packages"
    /\ LET part == repos[ing_i]
           after == AfterPartition(ing_i, "packages", "files")
       IN  IF ~part.repomd
           THEN \* line 394: the partition is not iterated
                /\ ing_pc' = after.pc /\ ing_i' = after.i
                /\ UNCHANGED <<packages_cache, packages_index, ing_error>>
           ELSE IF part.primary.state = "unnamed"
           THEN \* line 406: joinpath(None)
                /\ ing_pc' = "raised" /\ ing_error' = "TypeError"
                /\ UNCHANGED <<packages_cache, packages_index, ing_i>>
           ELSE IF part.primary.state = "missing"
           THEN \* lines 299, 327: iter_primary(None)
                /\ ing_pc' = "raised" /\ ing_error' = "AttributeError"
                /\ UNCHANGED <<packages_cache, packages_index, ing_i>>
           ELSE LET added == AddPrimary(packages_cache, packages_index, part.name,
                                        part.primary.records)
                IN  /\ packages_cache' = added.cache
                    /\ packages_index' = added.index
                    /\ IF added.error # ""
                       THEN \* line 330, caught nowhere
                            /\ ing_pc' = "raised" /\ ing_error' = added.error
                            /\ UNCHANGED ing_i
                       ELSE /\ ing_pc' = after.pc /\ ing_i' = after.i
                            /\ UNCHANGED ing_error
    /\ UNCHANGED <<repos, ing_verbose, repos_versions, ing_written, notIng>>

\* iter_filelist (lines 304-310) and lines 805-806 up to the first record
\* whose key is not in the dict
RECURSIVE AddFilelist(_, _, _, _)
AddFilelist(cache, index, repo, records) ==
    IF records = <<>> THEN [cache |-> cache, error |-> ""]
    ELSE LET r == Head(records)
             package_files == Package(r.name, r.arch, r.version, r.rel,
                                      Some(RecordFiles(repo, r)), None, None, repo)
         IN  IF PackageHash(package_files) \notin DOMAIN index
             THEN [cache |-> cache, error |-> "KeyError"]
             ELSE AddFilelist(
                      [cache EXCEPT ![index[PackageHash(package_files)]].files =
                                        package_files.files],
                      index, repo, Tail(records))

\* lines 803-807 for one partition
AddFiles ==
    /\ ing_pc = "files"
    /\ LET part == repos[ing_i]
           after == AfterPartition(ing_i, "files", "write")
       IN  IF ~part.repomd
           THEN /\ ing_pc' = after.pc /\ ing_i' = after.i
                /\ UNCHANGED <<packages_cache, ing_error>>
           ELSE IF part.filelists.state = "unnamed"
           THEN \* line 402: joinpath(None)
                /\ ing_pc' = "raised" /\ ing_error' = "TypeError"
                /\ UNCHANGED <<packages_cache, ing_i>>
           ELSE IF part.filelists.state = "missing"
           THEN \* lines 299, 304: iter_filelist(None)
                /\ ing_pc' = "raised" /\ ing_error' = "AttributeError"
                /\ UNCHANGED <<packages_cache, ing_i>>
           ELSE LET added == AddFilelist(packages_cache, packages_index, part.name,
                                         part.filelists.records)
                IN  /\ packages_cache' = added.cache
                    /\ IF added.error # ""
                       THEN \* line 806, caught nowhere
                            /\ ing_pc' = "raised" /\ ing_error' = added.error
                            /\ UNCHANGED ing_i
                       ELSE /\ ing_pc' = after.pc /\ ing_i' = after.i
                            /\ UNCHANGED ing_error
    /\ UNCHANGED <<repos, ing_verbose, repos_versions, packages_index, ing_written, notIng>>

\* lines 810-812: pickle.dump((PACKAGE_CACHE_HEADER, repos_versions, tuple(packages_cache)))
WriteCache ==
    /\ ing_pc = "write"
    /\ ing_written' = Some(<<[header |-> PACKAGE_CACHE_HEADER,
                           repos_versions |-> repos_versions,
                           packages |-> packages_cache]>>)
    /\ ing_pc' = "done"
    /\ UNCHANGED <<repos, ing_verbose, repos_versions, packages_cache, packages_index,
                   ing_i, ing_error, notIng>>

IngNext == ReadVersions \/ AddPackages \/ AddFiles \/ WriteCache

SpecIng == IngInit /\ [][IngNext]_vars

\* ------------------------------------------- query session next to a refresh
\* the packages of a cache artifact
CachedPackages ==
    {Package(<<n>>, "x86_64", "1.0", "1", None, Some(<<>>), Some(<<>>), "main") :
        n \in {"a", "b"}}

\* the package tuples of an artifact: no package twice
CachedTuples ==
    {t \in SeqsUpTo(CachedPackages, MaxCached) :
        \A i, j \in 1..Len(t) : i # j => t[i] # t[j]}

\* .packages.bin: a whole artifact, or the file of a dump under way, which is
\* empty after open(..., 'wb') and holds a part of the bytes after a flush
OnDisk(state, cached) == [state |-> state, packages |-> cached]

OutModes ==
    {"text", "files", "files-full", "provides", "provides-full",
     "tree", "tree-full", "rtree", "rtree-full"}

TreeModes == {"tree", "tree-full", "rtree", "rtree-full"}

SesInit ==
    /\ \E cached \in CachedTuples : disk = OnDisk("complete", cached)
    /\ w_packages \in CachedTuples
    /\ w_pc = "idle"
    /\ out \in OutModes
    /\ package_arg \in {None, Some(<<"=", "a">>), Some(<<"b">>)}
    /\ ses_reads = <<>>
    /\ ses_root = None
    /\ ses_packages = None
    /\ ses_printed = <<>>
    /\ ses_pc = "start"
    /\ ses_error = ""
    /\ CoreOff /\ MemOff /\ DescOff /\ IngOff

\* line 810: open(..., 'wb') truncates the file in place
WriterOpen ==
    /\ w_pc = "idle"
    /\ disk' = OnDisk("empty", <<>>)
    /\ w_pc' = "open"
    /\ UNCHANGED <<w_packages, out, package_arg, ses_reads, ses_root, ses_packages,
                   ses_printed, ses_pc, ses_error, notSes>>

\* line 812: pickle.dump writes through the buffered file, which hands a full
\* buffer to the file before the dump is over
WriterFlush ==
    /\ w_pc = "open"
    /\ disk' = OnDisk("partial", w_packages)
    /\ w_pc' = "flushed"
    /\ UNCHANGED <<w_packages, out, package_arg, ses_reads, ses_root, ses_packages,
                   ses_printed, ses_pc, ses_error, notSes>>

\* the end of the with block (line 812): the rest is written, the file closed
WriterClose ==
    /\ w_pc \in {"open", "flushed"}
    /\ disk' = OnDisk("complete", w_packages)
    /\ w_pc' = "closed"
    /\ UNCHANGED <<w_packages, out, package_arg, ses_reads, ses_root, ses_packages,
                   ses_printed, ses_pc, ses_error, notSes>>

\* load_packages_cache (lines 597-599) on what is on disk: pickle.load of an
\* empty file raises EOFError, of a part of a pickle UnpicklingError; a whole
\* artifact written by a refresh passes the format check
LoadPackagesCache(file) ==
    IF file.state = "empty" THEN [error |-> "EOFError", packages |-> <<>>]
    ELSE IF file.state = "partial" THEN [error |-> "UnpicklingError", packages |-> <<>>]
    ELSE [error |-> "", packages |-> file.packages]

\* iter_packages (lines 601-617) under _iter_packages (lines 890-905) with no
\* filter but the package name filter
IterPackages(cached, name_filter) ==
    IF name_filter.is_none THEN cached
    ELSE LET filters == ParseFilters(name_filter.v)
         IN  SelectSeq(cached,
                 LAMBDA package :
                     IsMatchFrom(filters, IsAllInverse(filters), package.name, 1))

\* lines 908-949, 1005-1008: the text, files and provides outputs loop over
\* _iter_packages() once
ListPackages ==
    /\ ses_pc = "start"
    /\ out \notin TreeModes
    /\ ses_reads' = Append(ses_reads, disk)
    /\ LET loaded == LoadPackagesCache(disk)
       IN  IF loaded.error # ""
           THEN /\ ses_pc' = "raised" /\ ses_error' = loaded.error
                /\ UNCHANGED ses_printed
           ELSE /\ ses_printed' = IterPackages(loaded.packages, package_arg)
                /\ ses_pc' = "done"
                /\ UNCHANGED ses_error
    /\ UNCHANGED <<disk, w_packages, w_pc, out, package_arg, ses_root, ses_packages,
                   notSes>>

\* line 954: root_package = next(_iter_packages())
SelectRootPackage ==
    /\ ses_pc = "start"
    /\ out \in TreeModes
    /\ ses_reads' = Append(ses_reads, disk)
    /\ LET loaded == LoadPackagesCache(disk)
           passed == IterPackages(loaded.packages, package_arg)
       IN  IF loaded.error # ""
           THEN /\ ses_pc' = "raised" /\ ses_error' = loaded.error
                /\ UNCHANGED ses_root
           ELSE IF passed = <<>>
           THEN \* next() of an exhausted generator
                /\ ses_pc' = "raised" /\ ses_error' = "StopIteration"
                /\ UNCHANGED ses_root
           ELSE /\ ses_root' = Some(<<passed[1]>>)
                /\ ses_pc' = "rooted"
                /\ UNCHANGED ses_error
    /\ UNCHANGED <<disk, w_packages, w_pc, out, package_arg, ses_packages, ses_printed,
                   notSes>>

\* lines 999-1001: the root is printed, package_name_filter is cleared and
\* packages = tuple(_iter_packages()) loads the cache again
LoadCandidates ==
    /\ ses_pc = "rooted"
    /\ ses_reads' = Append(ses_reads, disk)
    /\ LET loaded == LoadPackagesCache(disk)
       IN  IF loaded.error # ""
           THEN /\ ses_pc' = "raised" /\ ses_error' = loaded.error
                /\ UNCHANGED <<ses_packages, ses_printed>>
           ELSE /\ ses_packages' = Some(IterPackages(loaded.packages, None))
                /\ ses_printed' = <<ses_root.v[1]>>
                /\ ses_pc' = "walk"
                /\ UNCHANGED ses_error
    /\ UNCHANGED <<disk, w_packages, w_pc, out, package_arg, ses_root, notSes>>

\* line 1003: provides_packages(root_package) runs and returns
WalkTree ==
    /\ ses_pc = "walk"
    /\ ses_pc' = "done"
    /\ UNCHANGED <<disk, w_packages, w_pc, out, package_arg, ses_reads, ses_root,
                   ses_packages, ses_printed, ses_error, notSes>>

SesNext ==
    \/ WriterOpen \/ WriterFlush \/ WriterClose
    \/ ListPackages \/ SelectRootPackage \/ LoadCandidates \/ WalkTree

SpecSes == SesInit /\ [][SesNext]_vars

\* -------------------------------------------------------------- walker claims
\* q satisfies at least one requirement of p: a provided relation of equal
\* name or, for a requirement whose name starts with "/", a file of q
Satisfies(p, q) ==
    \E r \in Range(OrEmpty(p.requires)) :
        IF r.name # <<>> /\ r.name[1] = "/"
        THEN r.name \in Range(OrEmpty(q.files))
        ELSE \E o \in Range(OrEmpty(q.provides)) : o.name = r.name

\* the edge p -> q of the traversal direction
Edge(p, q, reverse) == IF reverse THEN Satisfies(q, p) ELSE Satisfies(p, q)

RECURSIVE ReachFrom(_, _, _)
ReachFrom(set, candidates, reverse) ==
    LET more == set \cup {q \in candidates : \E p \in set : Edge(p, q, reverse)}
    IN  IF more = set THEN set ELSE ReachFrom(more, candidates, reverse)

Reachable(reverse) == ReachFrom({root_package}, Range(packages), reverse)

Walking == pc \in {"call", "loop"}

Unvisited == {i \in 1..Len(packages) : ~InSet(packages[i], provided_packages)}

RECURSIVE FrameWork(_)
FrameWork(n) ==
    IF n = 0 THEN 0
    ELSE FrameWork(n - 1) + 2 * (Len(packages) + 1 - stack[n].i) + 1

\* the work the walker has left: strictly smaller after every step
Measure ==
    (2 * Len(packages) + 2) * Cardinality(Unvisited)
    + FrameWork(Len(stack))
    + (IF pc = "call" THEN 1 ELSE 0)

\* C1: the traversal terminates, forward and reverse, on every candidate set
\* (cyclic and self-satisfying ones included): while the walker runs a step
\* is always possible, every frame's loop index stays within the candidates,
\* and every step strictly decreases Measure, a natural number; so the
\* recursion started at the root returns to the top level (pc = "done").
C1_Terminates ==
    /\ [](Walking => ENABLED (Call \/ Examine \/ Return))
    /\ [](\A n \in 1..Len(stack) : stack[n].i <= Len(packages) + 1)
    /\ [][Walking => Measure' < Measure]_vars

\* a cyclic candidate set A -> B -> C -> A walked to the end: three packages
\* expanded, the last one leading back to the root
C1_Witness ==
    /\ pc = "done"
    /\ Len(expanded) = 3
    /\ \E k \in 1..Len(examined) :
        /\ examined[k][1] = expanded[3]
        /\ examined[k][2] = root_package
        /\ examined[k][3] = "already"
    /\ ~Satisfies(root_package, root_package)

\* C2: in forward mode the packages the walker expands are exactly the root
\* and every candidate reachable from it through edges p -> q in which q
\* satisfies a requirement of p.
C2_ForwardReach ==
    (pc = "done" /\ ~rtree) => Range(expanded) = Reachable(FALSE)

\* no two candidates have the same hash and compare equal
KeysDistinct ==
    \A i, j \in 1..Len(packages) :
        i # j => ~InSet(packages[i], {packages[j]})

\* C3: in reverse mode the packages the walker expands are exactly the root
\* and every candidate that transitively requires a capability of it (a
\* package with an empty requires list whose capability a candidate requires
\* leads to that candidate).  Stated for candidates that are pairwise
\* distinct in the visited set.
C3_ReverseReach ==
    (pc = "done" /\ rtree /\ KeysDistinct) => Range(expanded) = Reachable(TRUE)

\* ------------------------------------------------- matching primitive claims
\* the required relations that occur in yielded pairs
YieldedFor(pairs, require) == {k \in 1..Len(pairs) : pairs[k][1] = require}

IsPath(name) == name # <<>> /\ name[1] = "/"

\* C4: p.iter_relations(q, reverse=False) and q.iter_relations(p, reverse=True)
\* yield the same (required relation, providing relation or None) pairs.
C4_DirectionSymmetry ==
    (~rel_fwd.is_none /\ ~rel_rev.is_none) => rel_fwd.v = rel_rev.v

\* both calls made on packages where they yield a relation pair and a file pair
C4_Witness ==
    /\ ~rel_fwd.is_none /\ ~rel_rev.is_none
    /\ \E k \in 1..Len(rel_fwd.v) : rel_fwd.v[k][2] = <<>>
    /\ \E k \in 1..Len(rel_rev.v) : rel_rev.v[k][2] # <<>>

\* what C5 says of the pairs of one call, rel_p requiring and rel_q the candidate
FileAndRelationSeparate(pairs) ==
    \A require \in Range(OrEmpty(rel_p.requires)) :
        IF IsPath(require.name)
        THEN /\ YieldedFor(pairs, require) # {}
                    <=> require.name \in Range(OrEmpty(rel_q.files))
             /\ \A k \in YieldedFor(pairs, require) : pairs[k][2] = <<>>
        ELSE /\ YieldedFor(pairs, require) # {}
                    <=> \E o \in Range(OrEmpty(rel_q.provides)) : o.name = require.name
             /\ \A k \in YieldedFor(pairs, require) :
                    /\ pairs[k][2] # <<>>
                    /\ pairs[k][2][1] \in Range(OrEmpty(rel_q.provides))
                    /\ pairs[k][2][1].name = require.name

\* C5: in both directions a requirement whose name starts with "/" is
\* satisfied iff the candidate's files contain that exact path, never by a
\* provided relation of that name; any other requirement is satisfied only by
\* a provided relation of equal name, never by a file.
C5_FileVersusRelation ==
    /\ ~rel_fwd.is_none => FileAndRelationSeparate(rel_fwd.v)
    /\ ~rel_rev.is_none => FileAndRelationSeparate(rel_rev.v)

\* the candidate provides a relation named "/f" without the file and has a
\* file named "a" without the relation: neither satisfies the requirements
C5_Witness ==
    /\ ~rel_fwd.is_none /\ ~rel_rev.is_none
    /\ \E r \in Range(OrEmpty(rel_p.requires)) : IsPath(r.name)
    /\ \E r \in Range(OrEmpty(rel_p.requires)) : ~IsPath(r.name)
    /\ \E o \in Range(OrEmpty(rel_q.provides)) : IsPath(o.name)
    /\ \A o \in Range(OrEmpty(rel_q.provides)) : IsPath(o.name)
    /\ Range(OrEmpty(rel_q.files)) = {<<"a">>}
    /\ rel_fwd.v = <<>> /\ rel_rev.v = <<>>

\* ------------------------------------------------------ name filter claims
\* the filters that match the name
Firing == {i \in 1..Len(flt_filters) : FilterIsMatch(flt_filters[i], flt_name)}

FirstFiring == CHOOSE i \in Firing : \A j \in Firing : i <= j

\* C6: the first pattern that matches decides (no-match if it is negated,
\* match if not); if no pattern matches the result is match iff every
\* pattern of the list is negated.
C6_ThreeWayRule ==
    flt_pc = "matched" =>
        flt_result = IF Firing # {} THEN ~flt_filters[FirstFiring].is_inverse
                     ELSE \A i \in 1..Len(flt_filters) : flt_filters[i].is_inverse

\* a list mixing a negated and a plain pattern, neither matching: no-match
C6_Witness ==
    /\ flt_pc = "matched"
    /\ Firing = {}
    /\ \E i \in 1..Len(flt_filters) : flt_filters[i].is_inverse
    /\ \E i \in 1..Len(flt_filters) : ~flt_filters[i].is_inverse
    /\ flt_result = FALSE

HasSigil(part) == part # <<>> /\ part[1] \in Sigils
AfterSigil(part) == IF HasSigil(part) THEN Tail(part) ELSE part
IsNegated(part) == StartsWith(AfterSigil(part), <<"!">>)
\* the pattern with the same sigil and body, not negated
Plain(part) ==
    (IF HasSigil(part) THEN <<part[1]>> ELSE <<>>) \o Tail(AfterSigil(part))

\* a pattern that begins and ends with a character other than the hyphen
NameLike(p) == p # <<>> /\ p[1] # "-" /\ p[Len(p)] # "-"

\* C7: of every kind, the negated pattern (=!p, ~!p, ^!p, #!p, !p, for
\* every p that begins and ends with a name character) matches exactly the
\* names that the pattern of the same sigil and the same p matches when not
\* negated.
C7_NegationUniform ==
    flt_pc = "matched" =>
        LET parts == Split(flt_arg, " ")
        IN  \A i \in 1..Len(parts) :
                (IsNegated(parts[i]) /\ NameLike(Tail(AfterSigil(parts[i])))) =>
                    (FilterIsMatch(flt_filters[i], flt_name)
                        <=> FilterIsMatch(ParsePattern(Plain(parts[i])), flt_name))

\* the hyphen separated components
Components(name) == Split(name, "-")

\* the components of p are consecutive components of the name
IsRunOf(ps, ns) ==
    \E off \in 0..(Len(ns) - Len(ps)) : \A k \in 1..Len(ps) : ns[off + k] = ps[k]

\* one pattern ~p, not negated, was matched against the name
PartsMatched ==
    /\ flt_pc = "matched"
    /\ Len(flt_filters) = 1
    /\ flt_filters[1].kind = "parts"
    /\ ~flt_filters[1].is_inverse

\* C8 as stated, for every p that begins and ends with a name character: ~p
\* matches iff p is one of the hyphen separated components of the name.
C8_OneComponent ==
    (PartsMatched /\ NameLike(flt_filters[1].pattern)) =>
        (flt_result <=> flt_filters[1].pattern \in Range(Components(flt_name)))

\* C8, amended: ~p matches iff the name is p, starts with p-, ends with -p or
\* contains -p-, that is iff the hyphen separated components of p are
\* consecutive components of the name; for p without a hyphen, iff p is one
\* of the components of the name.
C8_ComponentRun ==
    PartsMatched =>
        LET p == flt_filters[1].pattern
        IN  /\ flt_result <=> IsRunOf(Components(p), Components(flt_name))
            /\ flt_result <=>
                   \/ flt_name = p
                   \/ StartsWith(flt_name, p \o <<"-">>)
                   \/ EndsWith(flt_name, <<"-">> \o p)
                   \/ Contains(flt_name, <<"-">> \o p \o <<"-">>)
            /\ "-" \notin Range(p) =>
                   (flt_result <=> p \in Range(Components(flt_name)))

\* ~p matched a name that has p as its middle component
C8_Witness ==
    /\ PartsMatched
    /\ flt_arg = <<"~", "p">>
    /\ flt_name = <<"x", "-", "p", "-", "x">>
    /\ flt_result

\* ---------------------------------------------------- package equality claim
\* C9: two packages compare equal iff their name, architecture and version
\* match, the version being the pair (upstream version, release label).
C9_EqualityWithRelease ==
    eq_pc = "compared" =>
        (eq_result <=> /\ eq_a.name = eq_b.name
                       /\ eq_a.arch = eq_b.arch
                       /\ eq_a.version = eq_b.version
                       /\ eq_a.rel = eq_b.rel)

\* ------------------------------------------------------- cache reader claim
\* the decoded artifact is a 3-tuple of the expected header, a dict and a tuple
ExpectedShape(obj) ==
    /\ obj.kind = "tuple"
    /\ Len(obj.items) = 3
    /\ obj.items[1].kind = "tuple"
    /\ obj.items[1].items = <<"PACKAGE_CACHE", "2025.5">>
    /\ obj.items[2].kind = "dict"
    /\ obj.items[3].kind = "tuple"

\* C10: load_meta_cache returns (revisions, packages) only for a decoded
\* artifact of the expected shape, and returns its second and third element;
\* for every other decoded artifact (and for a missing file) the session ends
\* with the rebuild instruction and exit(-1), nothing is returned and no
\* package reaches a filter.  (A file that does not decode is claim C11's.)
C10_AllOrNothing ==
    /\ ~cache_returned.is_none =>
            /\ cache_file.state = "decoded"
            /\ ExpectedShape(cache_file.obj)
            /\ cache_returned.v = <<cache_file.obj.items[2], cache_file.obj.items[3]>>
    /\ query_steps > 0 => ~cache_returned.is_none
    /\ (/\ cache_pc # "start"
        /\ \/ cache_file.state = "not found"
           \/ cache_file.state = "decoded" /\ ~ExpectedShape(cache_file.obj)) =>
            /\ cache_pc = "exit"
            /\ help_shown
            /\ exit_code = -1
            /\ cache_returned.is_none
            /\ query_steps = 0

\* an artifact whose only fault is the version of its header was rejected
C10_Witness ==
    /\ cache_pc = "exit"
    /\ help_shown
    /\ cache_file.state = "decoded"
    /\ cache_file.obj.kind = "tuple"
    /\ Len(cache_file.obj.items) = 3
    /\ cache_file.obj.items[1] = Obj("tuple", <<"PACKAGE_CACHE", "2024.1">>)
    /\ cache_file.obj.items[2].kind = "dict"
    /\ cache_file.obj.items[3].kind = "tuple"

\* ----------------------------------------------- summary and description
\* C20: a package constructed with summary s and description d stores no
\* description iff d equals s or d equals s followed by one period (d = s
\* includes the case where both end with a period); otherwise it stores d
\* unchanged.
C20_DescriptionModuloPeriod ==
    (desc_pc = "built" /\ ~desc_summary.is_none /\ ~desc_description.is_none) =>
        LET s == desc_summary.v
            d == desc_description.v
        IN  IF d = s \/ d = s \o <<".">>
            THEN desc_stored = None
            ELSE desc_stored = desc_description

\* ---------------------------------------------------- membership filters
\* some relation of the list has a name that contains one of the patterns
SomeNameContains(relations, patterns) ==
    \E k \in 1..Len(patterns), i \in 1..Len(OrEmpty(relations)) :
        Contains(relations.v[i].name, patterns[k])

\* C18: the provides-membership filter selects a package iff one of its
\* provided relations has a name containing one of the patterns, and the
\* requires-membership filter selects it iff one of its required relations
\* has such a name, for every pattern, patterns that begin with '/' included.
C18_MembershipBySubstring ==
    /\ ~mem_provides.is_none =>
          (mem_provides.v[1] <=> SomeNameContains(mem_self.v[1].provides, mem_filter))
    /\ ~mem_requires.is_none =>
          (mem_requires.v[1] <=> SomeNameContains(mem_self.v[1].requires, mem_filter))

\* ------------------------------------------------------ cache refresh claims
RefreshEnded == ing_pc \in {"done", "raised"}

\* what the index files of a partition hold
TypeViolation(part) ==
    /\ part.repomd /\ part.primary.state = "ok"
    /\ \E k \in 1..Len(part.primary.records) : part.primary.records[k].type # "rpm"

AbsentDescriptor(part) ==
    part.repomd /\ (part.primary.state # "ok" \/ part.filelists.state # "ok")

SameIdentity(r, q) == r.name = q.name /\ r.arch = q.arch /\ r.version = q.version

HasPrimaryRecord(part, r) ==
    /\ part.primary.state = "ok"
    /\ \E k \in 1..Len(part.primary.records) :
          part.primary.records[k].type = "rpm" /\ SameIdentity(part.primary.records[k], r)

UnmatchedRecord(part) ==
    /\ part.repomd /\ part.filelists.state = "ok"
    /\ \E k \in 1..Len(part.filelists.records) :
          ~HasPrimaryRecord(part, part.filelists.records[k])

NothingToPrint == ing_verbose > 0 /\ \A k \in 1..Len(repos) : ~repos[k].repomd

WrittenPackages == ing_written.v[1].packages

\* the package of a package index record is in the written collection
IsWritten(repo, r) ==
    /\ ~ing_written.is_none
    /\ \E i \in 1..Len(WrittenPackages) :
          /\ WrittenPackages[i].repo = repo /\ WrittenPackages[i].rel = r.rel
          /\ SameIdentity(WrittenPackages[i], r)

\* the files of a file index record are on a written package of its identity
IsAttached(repo, r) ==
    /\ ~ing_written.is_none
    /\ \E i \in 1..Len(WrittenPackages) :
          /\ WrittenPackages[i].repo = repo /\ SameIdentity(WrittenPackages[i], r)
          /\ WrittenPackages[i].files = Some(RecordFiles(repo, r))

\* C14: the package collection a refresh writes never holds two packages with
\* the same identity key (repository, name, architecture, version).
C14_WrittenDeduplicated ==
    ~ing_written.is_none =>
        \A i, j \in 1..Len(WrittenPackages) :
            i # j => PackageHash(WrittenPackages[i]) # PackageHash(WrittenPackages[j])

\* C15: a refresh whose only irregularity is a file index record that matches
\* no package index record raises no error, writes the cache, and has attached
\* the files of every file index record that does match.
C15_UnmatchedFileDropped ==
    (/\ RefreshEnded
     /\ \E k \in 1..Len(repos) : UnmatchedRecord(repos[k])
     /\ \A k \in 1..Len(repos) : ~TypeViolation(repos[k]) /\ ~AbsentDescriptor(repos[k])
     /\ ~NothingToPrint)
    => /\ ing_pc = "done" /\ ing_error = ""
       /\ \A k \in 1..Len(repos) : \A n \in 1..Len(repos[k].filelists.records) :
             HasPrimaryRecord(repos[k], repos[k].filelists.records[n])
                 => IsAttached(repos[k].name, repos[k].filelists.records[n])

\* C16: a refresh in which the package index of some partition holds a record
\* that is not an rpm, and nothing else is irregular, still writes the cache
\* with every package of every other partition.
C16_PartitionIsolation ==
    (/\ RefreshEnded
     /\ \E k \in 1..Len(repos) : TypeViolation(repos[k])
     /\ \A k \in 1..Len(repos) :
           /\ ~AbsentDescriptor(repos[k])
           /\ ~TypeViolation(repos[k]) => ~UnmatchedRecord(repos[k])
     /\ ~NothingToPrint)
    => /\ ing_pc = "done"
       /\ \A k \in 1..Len(repos) :
             (repos[k].repomd /\ ~TypeViolation(repos[k])) =>
                 \A n \in 1..Len(repos[k].primary.records) :
                     IsWritten(repos[k].name, repos[k].primary.records[n])

\* C17: a refresh in which a partition with a valid manifest lacks its package
\* index or file index file (missing, or not named by the manifest), and
\* nothing else is irregular, raises no error and writes the cache with the
\* packages of every partition that has a package index.
C17_AbsentDescriptorIsEmpty ==
    (/\ RefreshEnded
     /\ \E k \in 1..Len(repos) : AbsentDescriptor(repos[k])
     /\ \A k \in 1..Len(repos) : ~TypeViolation(repos[k]) /\ ~UnmatchedRecord(repos[k])
     /\ ~NothingToPrint)
    => /\ ing_pc = "done" /\ ing_error = ""
       /\ \A k \in 1..Len(repos) :
             (repos[k].repomd /\ repos[k].primary.state = "ok") =>
                 \A n \in 1..Len(repos[k].primary.records) :
                     IsWritten(repos[k].name, repos[k].primary.records[n])

\* ------------------------------------------------- corrupted cache artifact
\* C11: when .packages.bin exists but does not decode, reading it ends as a
\* format mismatch does: the rebuild instruction is printed and the process
\* exits with failure; no exception leaves load_meta_cache.
C11_CorruptCacheHandled ==
    (cache_file = Undecodable /\ cache_pc # "start") =>
        (cache_pc = "exit" /\ help_shown /\ exit_code = -1)

\* ---------------------------------------------------- query session claims
SessionEnded == ses_pc \in {"done", "raised"}

\* C12: whenever a reader loads the cache while a refresh saves it, the reader
\* finds the whole previous artifact or the whole new one, never an empty or
\* a partly written file.
C12_ReaderSeesWholeArtifact ==
    \A n \in 1..Len(ses_reads) : ses_reads[n].state = "complete"

\* C13: one query session reads the cache artifact once, and in the tree and
\* rtree outputs the root package is a member of the candidate tuple, also
\* when another process replaces the artifact during the session.
C13_OneSnapshot ==
    /\ Len(ses_reads) <= 1
    /\ ~ses_packages.is_none =>
          \E i \in 1..Len(ses_packages.v) : ses_packages.v[i] = ses_root.v[1]

\* C19: a session in which no cached package passes the filters ends without
\* an error and with an empty result, in every output mode.
C19_NoMatchIsEmptyResult ==
    (/\ SessionEnded
     /\ \A n \in 1..Len(ses_reads) :
           /\ ses_reads[n].state = "complete"
           /\ IterPackages(ses_reads[n].packages, package_arg) = <<>>)
    => (ses_pc = "done" /\ ses_error = "" /\ ses_printed = <<>>)

\* ------------------------------------------------------ visited set claims
\* every package whose for loop is running is in the visited set
FramesVisited ==
    \A n \in 1..Len(stack) : InSet(stack[n].package, provided_packages)

\* no package was expanded twice
ExpandedOnce ==
    \A i, j \in 1..Len(expanded) : i # j => expanded[i] # expanded[j]

\* a call that the for loop makes is for a candidate outside the visited set,
\* and a call for a member of the visited set expands nothing
NoRecursionIntoVisited ==
    /\ (pc = "loop" /\ pc' = "call") => ~InSet(arg', provided_packages)
    /\ (pc = "call" /\ InSet(arg, provided_packages)) =>
           (stack' = stack /\ expanded' = expanded)

\* C21: in every traversal a package is in the visited set before any of its
\* candidate children is examined, no package is expanded more than once, and
\* a candidate found in the visited set is never recursed into.
C21_VisitedBeforeChildren ==
    /\ [](FramesVisited /\ ExpandedOnce)
    /\ [][NoRecursionIntoVisited]_vars

\* a reverse walk over two packages that need each other: the second one
\* found the root in the visited set
C21_Witness ==
    /\ pc = "done"
    /\ rtree
    /\ Len(expanded) = 2
    /\ \E k \in 1..Len(examined) :
        /\ examined[k][1] = expanded[2]
        /\ examined[k][2] = root_package
        /\ examined[k][3] = "already"

\* C23: the walker never takes the package it is visiting as one of that
\* package's own children, neither to recurse into it nor to report it as
\* already visited, also when the package satisfies its own requirement.
C23_NoSelfChild ==
    \A k \in 1..Len(examined) : examined[k][1] # examined[k][2]

\* ------------------------------------------------ files stay in a partition
\* the files a package holds are those of a file index record of its own
\* partition with its (name, architecture, version)
FilesFromOwnPartition(package) ==
    ~package.files.is_none =>
        \E k \in 1..Len(repos) :
            /\ repos[k].repomd /\ repos[k].name = package.repo
            /\ \E n \in 1..Len(repos[k].filelists.records) :
                  /\ SameIdentity(repos[k].filelists.records[n], package)
                  /\ package.files = Some(RecordFiles(package.repo,
                                                      repos[k].filelists.records[n]))

====
